---- MODULE Spec2Model ----
(***************************************************************************)
(* NeuroStrike: the gameplay state of the character, its weapon component  *)
(* and the pickup component, as a state machine.                           *)
(*                                                                         *)
(* Units.  The C++ floats are modelled in fixed point:                     *)
(*   stamina  in tenths          (100.0f -> 1000, 0.1f -> 1, 0.2f -> 2)    *)
(*   health   in whole points    (100.0f -> 100)                           *)
(*   time     in twentieths of a second (0.1f -> 2, one second -> 20)      *)
(*   speed    in whole units     (500.0f -> 500)                           *)
(*   input vector components in thousandths (tolerance 0.001f -> 1)        *)
(***************************************************************************)
EXTENDS Integers, Sequences, FiniteSets, TLC

\* ---------------------------------------------------------------- constants
MaxHealth == 100
MaxStamina == 1000
StaminaRegenRate == 2
SprintStaminaCost == 1
RegenInterval == 2
OneSecond == 10 * RegenInterval
WalkingSpeed == 500
SprintingSpeed == 750
Tolerance == 1

\* ------------------------------------------------------------------- bounds
\* Tick is not taken once the static accumulator would pass this value.
MaxAccumulatedTime == 4
\* DecreaseHealth with a negative cost is not taken once Health would pass
\* MaxHealth + MaxOverheal.
MaxOverheal == 20
\* Overlap events after the BeginPlay of a pickup component.
MaxOverlaps == 3
\* Sprint triggers are not taken once the stamina is this far below MaxStamina,
\* in the specification of two characters on one machine.
MaxSprintDebt == 2
\* Fire inputs of one player.
MaxFires == 2
\* Fire inputs one weapon component handles.
MaxWeaponFires == 1
\* Projectiles that can exist in one run.
MaxProjectiles == 2
\* Hit events of one projectile.
MaxHits == 3

\* The frame times Tick is called with (1/20 s and 1/10 s).
DeltaSeconds == {1, 2}
\* The costs DecreaseHealth is called with.
HealthCosts == {-10, 40, 100}
\* The 2D values of the move input, as (X, Y).
MoveValues == {<<0, 0>>, <<1, 0>>, <<0, 1000>>}
\* MaxWalkSpeed of the movement component before any Sprint or StopSprinting:
\* set by the engine or the character blueprint, not by this code.
InitialWalkSpeeds == {WalkingSpeed, 600}

\* ------------------------------------------------------------------ world
\* Two machines; every character exists once on each of them.
Machines == {"server", "client"}
\* Character A is the pawn of the player on the listen server, B the pawn of
\* the player on the client.
Chars == {"A", "B"}
Inst == Machines \X Chars
Weapons == {"W1", "W2"}
Pickups == {"P1"}
Projectiles == 1..MaxProjectiles
\* The actors a projectile can hit: none, the projectile itself, a character,
\* or a crate; and the components hit: none, one that does not simulate
\* physics, or one that does.
HitActors == {"null", "this", "A", "Crate"}
HitComps == {"null", "StaticComp", "PhysicsComp"}
\* The actors that can overlap a pickup: the characters, a projectile, or none.
OtherActors == Chars \cup {"Projectile", "null"}
null == "null"

MachineOf(i) == i[1]
CharOf(i) == i[2]

VARIABLES
    begun,              \* [Inst -> BOOLEAN]   BeginPlay has run
    Health,             \* [Inst -> Int]
    BaseStamina,        \* [Inst -> Int]
    MaxWalkSpeed,       \* [Inst -> Int]       GetCharacterMovement()->MaxWalkSpeed
    ControlInputVector, \* [Inst -> vector]    movement input added this frame
    LastInputVector,    \* [Inst -> vector]    GetLastInputVector()
    bHasRifle,          \* [Inst -> BOOLEAN]
    WeaponComponent,    \* [Inst -> Weapons \cup {null}]
    destroyed,          \* [Inst -> BOOLEAN]   Destroy() was called on the actor
    AccumulatedTime,    \* [Machines -> Int]   the static local of Tick
    crashed,            \* [Machines -> BOOLEAN] the process died on a null dereference
    despawnFX,          \* [Inst -> Nat]       runs of Multicast_OnDespawnEffects_Implementation
    net,                \* set of messages in flight
    wCharacter,         \* [Machines \X Weapons -> Chars \cup {null}]  UTP_WeaponComponent::Character
    wAttachParent,      \* [Machines \X Weapons -> Chars \cup {null}]  whose Mesh1P the weapon is attached to
    wDestroyed,         \* [Machines \X Weapons -> BOOLEAN]  DestroyComponent() was called
    MappingContexts,    \* [Machines -> SUBSET {"Default", "Fire"}]  of the local player's input subsystem
    FireBindings,       \* [Machines \X Weapons -> Nat]  Fire bindings on the local input component
    pBegun,             \* [Pickups -> BOOLEAN]  BeginPlay of the pickup component has run
    overlapBound,       \* [Pickups -> BOOLEAN]  OnSphereBeginOverlap is bound to OnComponentBeginOverlap
    OnPickUp,           \* [Pickups -> Seq(Chars)]  the broadcasts of OnPickUp, in order
    overlaps,           \* history: [Pickups -> Seq(actors)]  the overlap events since BeginPlay
    serverFireRPC,      \* [Chars -> Nat]  ServerFire requests of the character in flight to the server
    wServerFireRPC,     \* [Weapons -> Nat]  ServerFire requests of the weapon component in flight
    fireFXRPC,          \* [Chars -> Nat]  FireFX multicasts in flight to the client
    projectiles,        \* [Projectiles -> {"none", "flying", "destroyed"}]  on the server
    impulses,           \* [Projectiles -> Nat]  impulses the projectile has applied
    fxRuns,             \* history: [Machines \X Weapons -> Nat]  runs of HandleProjectileFX
    fires,              \* history: [Chars -> Nat]  fire inputs of the character's player
    wFires,             \* history: [Machines \X Weapons -> Nat]  fire inputs the weapon component handled
    shoots,             \* history: [Inst -> Nat]  runs of Shoot
    hits,               \* history: [Projectiles -> Nat]  OnHit events of the projectile
    nullDeref,          \* history: the null pointers dereferenced so far
    soloAccum,          \* history: [Inst -> Int]  an accumulator only this character's Tick advances
    soloStamina,        \* history: [Inst -> Int]  the stamina regenerated by soloAccum
    lastCall,           \* history: the handler that ran last, [op, inst]
    measuring,          \* history: the regeneration of this run is measured
    regenClock,         \* history: tick time passed since the start of the run
    regenGain           \* history: stamina regenerated since the start of the run

vars == <<begun, Health, BaseStamina, MaxWalkSpeed, ControlInputVector,
          LastInputVector, bHasRifle, WeaponComponent, destroyed,
          AccumulatedTime, crashed, despawnFX, net,
          wCharacter, wAttachParent, wDestroyed, MappingContexts, FireBindings,
          pBegun, overlapBound, OnPickUp, overlaps,
          serverFireRPC, wServerFireRPC, fireFXRPC, projectiles, impulses,
          fxRuns, fires, wFires, shoots, hits, nullDeref, soloAccum, soloStamina,
          lastCall, measuring, regenClock, regenGain>>
fireVars == <<serverFireRPC, wServerFireRPC, fireFXRPC, projectiles, impulses,
              fxRuns, fires, wFires, shoots, hits>>
soloVars == <<soloAccum, soloStamina>>
pickupVars == <<pBegun, overlapBound, OnPickUp, overlaps>>
regenVars == <<measuring, regenClock, regenGain>>
weaponVars == <<wCharacter, wAttachParent, wDestroyed, FireBindings>>

Call(op, inst) == [op |-> op, inst |-> inst]

\* --------------------------------------------------------------- the engine
\* AActor::HasAuthority / GetLocalRole() == ROLE_Authority: the characters are
\* spawned by the server and replicated to the client.
HasAuthority(i) == MachineOf(i) = "server"

\* The machine on which the input of a character's player is processed.
LocalMachine(c) == IF c = "A" THEN "server" ELSE "client"

\* APawn::Controller.  The server holds a player controller for every pawn,
\* a client only for its own pawn.
Controller(i) ==
    IF MachineOf(i) = "server" \/ LocalMachine(CharOf(i)) = MachineOf(i)
    THEN "PlayerController" ELSE null

\* The instance receives the input events of its player.
IsLocallyControlled(i) == LocalMachine(CharOf(i)) = MachineOf(i)

\* The engine calls into a live actor of a running process only.
Live(i) == begun[i] /\ ~destroyed[i] /\ ~crashed[MachineOf(i)]

\* ULocalPlayer::GetSubsystem<UEnhancedInputLocalPlayerSubsystem>(
\* PlayerController->GetLocalPlayer()): only a controller whose player sits at
\* this machine has a local player, and with it an input subsystem and an
\* enhanced input component.
HasLocalPlayer(i) == Controller(i) = "PlayerController" /\ IsLocallyControlled(i)

\* The weapon a character's WeaponComponent field points to, when it is set.
WeaponOf(c) == IF c = "A" THEN "W1" ELSE "W2"

\* ------------------------------------------------------- ANeuroStrikeCharacter
\* BeginPlay: PlayerId is drawn at random and only names the debug message
\* slot; it is not part of the state.
BeginPlay(i) ==
    /\ lastCall' = Call("BeginPlay", i)
    /\ ~begun[i]
    /\ ~crashed[MachineOf(i)]
    /\ begun' = [begun EXCEPT ![i] = TRUE]
    /\ Health' = [Health EXCEPT ![i] = MaxHealth]
    /\ BaseStamina' = [BaseStamina EXCEPT ![i] = MaxStamina]
    /\ MappingContexts' =
          IF HasLocalPlayer(i)
          THEN [MappingContexts EXCEPT ![MachineOf(i)] = @ \cup {"Default"}]
          ELSE MappingContexts
    /\ UNCHANGED <<MaxWalkSpeed, ControlInputVector, LastInputVector, bHasRifle,
                   WeaponComponent, destroyed, AccumulatedTime, crashed,
                   despawnFX, net, weaponVars>>
    /\ soloStamina' = [soloStamina EXCEPT ![i] = MaxStamina]
    /\ UNCHANGED <<pickupVars, regenVars, fireVars, soloAccum, nullDeref>>

\* FVector::IsNearlyZero(Tolerance)
IsNearlyZero(v, tol) ==
    /\ v[1] <= tol /\ -v[1] <= tol
    /\ v[2] <= tol /\ -v[2] <= tol

IsPlayerMoving(i) == ~IsNearlyZero(LastInputVector[i], Tolerance)

\* Mutant: any stamina left is taken for enough.
PlayerHasEnoughStamina_AnyLeft(i, StaminaCost) == BaseStamina[i] >= 0

PlayerHasEnoughStamina(i, StaminaCost) == BaseStamina[i] >= StaminaCost

\* Mutant: the cost is taken twice.
DecreaseStamina_Twice(i, StaminaCost) == BaseStamina[i] - 2 * StaminaCost

\* The value BaseStamina has after DecreaseStamina(StaminaCost).
DecreaseStamina(i, StaminaCost) == BaseStamina[i] - StaminaCost

\* Mutant: StopSprinting leaves the sprinting speed.
StopSprintingSpeed_Sprinting == SprintingSpeed

\* The value MaxWalkSpeed has after StopSprinting().
StopSprintingSpeed == WalkingSpeed

\* Move: the input is added to the movement component when the pawn has a
\* controller.  The forward and the right component are added separately.
\* The Triggered event of the move input fires once in a frame.
Move(i, Value) ==
    /\ lastCall' = Call("Move", i)
    /\ Live(i) /\ IsLocallyControlled(i)
    /\ ControlInputVector[i] = <<0, 0>>
    /\ ControlInputVector' =
          IF Controller(i) # null
          THEN [ControlInputVector EXCEPT ![i] = <<@[1] + Value[1], @[2] + Value[2]>>]
          ELSE ControlInputVector
    /\ UNCHANGED <<begun, Health, BaseStamina, MaxWalkSpeed, LastInputVector,
                   bHasRifle, WeaponComponent, destroyed, AccumulatedTime,
                   crashed, despawnFX, net, weaponVars, MappingContexts>>
    /\ UNCHANGED <<pickupVars, regenVars, fireVars, soloVars, nullDeref>>

\* Sprint: bound to the Triggered event of the sprint input.
Sprint(i) ==
    /\ lastCall' = Call("Sprint", i)
    /\ Live(i) /\ IsLocallyControlled(i)
    /\ IF PlayerHasEnoughStamina(i, SprintStaminaCost) /\ IsPlayerMoving(i)
       THEN /\ MaxWalkSpeed' = [MaxWalkSpeed EXCEPT ![i] = SprintingSpeed]
            /\ BaseStamina' = [BaseStamina EXCEPT ![i] = DecreaseStamina(i, SprintStaminaCost)]
       ELSE /\ MaxWalkSpeed' = [MaxWalkSpeed EXCEPT ![i] = StopSprintingSpeed]
            /\ UNCHANGED BaseStamina
    /\ soloStamina' =
          IF soloStamina[i] >= SprintStaminaCost /\ IsPlayerMoving(i)
          THEN [soloStamina EXCEPT ![i] = @ - SprintStaminaCost]
          ELSE soloStamina
    /\ UNCHANGED <<begun, Health, ControlInputVector, LastInputVector, bHasRifle,
                   WeaponComponent, destroyed, AccumulatedTime, crashed,
                   despawnFX, net, weaponVars, MappingContexts>>
    /\ UNCHANGED <<pickupVars, regenVars, fireVars, soloAccum, nullDeref>>

\* StopSprinting: bound to the Completed event of the sprint input.
StopSprinting(i) ==
    /\ lastCall' = Call("StopSprinting", i)
    /\ Live(i) /\ IsLocallyControlled(i)
    /\ MaxWalkSpeed' = [MaxWalkSpeed EXCEPT ![i] = StopSprintingSpeed]
    /\ UNCHANGED <<begun, Health, BaseStamina, ControlInputVector, LastInputVector,
                   bHasRifle, WeaponComponent, destroyed, AccumulatedTime, crashed,
                   despawnFX, net, weaponVars, MappingContexts>>
    /\ UNCHANGED <<pickupVars, regenVars, fireVars, soloVars, nullDeref>>

\* The stamina after the regeneration step of Tick, given the accumulator
\* after DeltaSeconds was added.
RegenDue(i, acc) == acc >= RegenInterval /\ BaseStamina[i] < MaxStamina

\* Tick.  AccumulatedTime is a static local: one accumulator per process,
\* shared by every character that ticks there.  Super::Tick stands for the
\* engine's update of the frame, which consumes the movement input added
\* since the last frame.  The debug message is not part of the state.
\* soloAccum and soloStamina record what an accumulator of the character's
\* own would have done; soloAccum stops counting at MaxAccumulatedTime, which
\* is past the interval it is compared with.
Tick(i, dt) ==
    /\ lastCall' = Call("Tick", i)
    /\ Live(i)
    /\ AccumulatedTime[MachineOf(i)] + dt <= MaxAccumulatedTime
    /\ LastInputVector' = [LastInputVector EXCEPT ![i] = ControlInputVector[i]]
    /\ ControlInputVector' = [ControlInputVector EXCEPT ![i] = <<0, 0>>]
    /\ LET acc == AccumulatedTime[MachineOf(i)] + dt IN
       IF RegenDue(i, acc)
       THEN /\ BaseStamina' = [BaseStamina EXCEPT ![i] = @ + StaminaRegenRate]
            /\ AccumulatedTime' = [AccumulatedTime EXCEPT ![MachineOf(i)] = 0]
       ELSE /\ UNCHANGED BaseStamina
            /\ AccumulatedTime' = [AccumulatedTime EXCEPT ![MachineOf(i)] = acc]
    /\ UNCHANGED <<begun, Health, MaxWalkSpeed, bHasRifle, WeaponComponent,
                   destroyed, crashed, despawnFX, net, weaponVars, MappingContexts>>
    /\ IF measuring
       THEN /\ regenClock + dt <= OneSecond
            /\ regenClock' = regenClock + dt
            /\ regenGain' = regenGain + (BaseStamina'[i] - BaseStamina[i])
       ELSE UNCHANGED <<regenClock, regenGain>>
    /\ IF soloAccum[i] + dt >= RegenInterval /\ soloStamina[i] < MaxStamina
       THEN /\ soloStamina' = [soloStamina EXCEPT ![i] = @ + StaminaRegenRate]
            /\ soloAccum' = [soloAccum EXCEPT ![i] = 0]
       ELSE /\ UNCHANGED soloStamina
            /\ soloAccum' = [soloAccum EXCEPT ![i] =
                                IF @ + dt <= MaxAccumulatedTime THEN @ + dt
                                ELSE MaxAccumulatedTime]
    /\ UNCHANGED <<pickupVars, measuring, fireVars, nullDeref>>

\* ------------------------------------------------------- UTP_WeaponComponent
\* EndPlay of the weapon component w on machine m: the fire mapping context is
\* removed from the input subsystem of the local player that controls the
\* weapon's Character.  The value MappingContexts has afterwards.
WeaponEndPlay(m, w) ==
    IF wCharacter[<<m, w>>] # null /\ HasLocalPlayer(<<m, wCharacter[<<m, w>>]>>)
    THEN [MappingContexts EXCEPT ![m] = @ \ {"Fire"}]
    ELSE MappingContexts

\* AttachWeapon: Character is assigned before the checks.  A player
\* controller has an input subsystem and an enhanced input component on the
\* machine of its player only.
AttachWeapon(m, w, TargetCharacter) ==
    /\ ~crashed[m] /\ ~wDestroyed[<<m, w>>]
    /\ TargetCharacter # null => Live(<<m, TargetCharacter>>)
    /\ lastCall' = Call("AttachWeapon", <<m, w>>)
    /\ wCharacter' = [wCharacter EXCEPT ![<<m, w>>] = TargetCharacter]
    /\ IF TargetCharacter = null \/ bHasRifle[<<m, TargetCharacter>>]
       THEN UNCHANGED <<wAttachParent, bHasRifle, MappingContexts, FireBindings>>
       ELSE LET i == <<m, TargetCharacter>> IN
            /\ wAttachParent' = [wAttachParent EXCEPT ![<<m, w>>] = TargetCharacter]
            /\ bHasRifle' = [bHasRifle EXCEPT ![i] = TRUE]
            /\ MappingContexts' =
                  IF HasLocalPlayer(i)
                  THEN [MappingContexts EXCEPT ![m] = @ \cup {"Fire"}]
                  ELSE MappingContexts
            /\ FireBindings' =
                  IF HasLocalPlayer(i)
                  THEN [FireBindings EXCEPT ![<<m, w>>] = @ + 1]
                  ELSE FireBindings
    /\ UNCHANGED <<begun, Health, BaseStamina, MaxWalkSpeed, ControlInputVector,
                   LastInputVector, WeaponComponent, destroyed, AccumulatedTime,
                   crashed, despawnFX, net, wDestroyed, pickupVars, regenVars,
                   fireVars, soloVars, nullDeref>>

\* ------------------------------------------------------------------ firing
\* The assets of the weapon component (ProjectileClass, FireSound and
\* FireAnimation) are set in its blueprint, and the component is in a world.

\* The null pointers HandleProjectile and the HandleProjectileFX it ends with
\* dereference on the weapon component w of machine m: Character, and the
\* player controller its controller is cast to.
HandleProjectileDerefs(m, w) ==
    IF w = null THEN {"WeaponComponent"}
    ELSE IF wCharacter[<<m, w>>] = null THEN {"Character"}
    ELSE IF Controller(<<m, wCharacter[<<m, w>>]>>) # "PlayerController"
         THEN {"PlayerController"}
    ELSE {}

\* The null pointers HandleProjectileFX dereferences: Character, for the
\* location of the sound and the mesh of the animation.
HandleProjectileFXDerefs(m, w) ==
    IF w = null THEN {"WeaponComponent"}
    ELSE IF wCharacter[<<m, w>>] = null THEN {"Character"}
    ELSE {}

\* World->SpawnActor with AdjustIfPossibleButDontSpawnIfColliding: the values
\* projectiles can have afterwards.  The projectile is not spawned when it
\* would collide at its spawn location.
SpawnActor ==
    LET free == {p \in Projectiles : projectiles[p] = "none"} IN
    {projectiles} \cup
    {[projectiles EXCEPT ![p] = "flying"] :
        p \in {q \in free : \A r \in free : q <= r}}

\* The value fxRuns has after n runs of HandleProjectileFX on <<m, w>>.
RunHandleProjectileFX(m, w, n) ==
    IF w = null THEN fxRuns ELSE [fxRuns EXCEPT ![<<m, w>>] = @ + n]

\* HandleProjectile of the weapon component w on machine m: the projectile is
\* spawned at the camera of the player controller of Character, and
\* HandleProjectileFX is run.  Character and the player controller are
\* dereferenced without a check: on a null pointer the call is undefined
\* behaviour, which either ends the process or goes on.  The caller runs
\* HandleProjectileFX another FireFXRuns times in the same call.
HandleProjectile(m, w, FireFXRuns) ==
    /\ nullDeref' = nullDeref \cup HandleProjectileDerefs(m, w)
    /\ \/ /\ HandleProjectileDerefs(m, w) # {}
          /\ crashed' = [crashed EXCEPT ![m] = TRUE]
          /\ UNCHANGED <<projectiles, fxRuns>>
       \/ /\ UNCHANGED crashed
          /\ projectiles' \in SpawnActor
          /\ fxRuns' = RunHandleProjectileFX(m, w, 1 + FireFXRuns)

\* Mutant: the request is sent twice.
ServerFire_Twice(c) == [serverFireRPC EXCEPT ![c] = @ + 2]

\* ServerFire (Server, Reliable), called on an instance without authority:
\* the request is sent to the server.  The value serverFireRPC has afterwards.
ServerFire(c) == [serverFireRPC EXCEPT ![c] = @ + 1]

\* FireFX (NetMulticast, Unreliable) called on the server: FireFX_Implementation
\* runs there in the call and the multicast is sent to the client.  The value
\* fireFXRPC has afterwards.
FireFX(i) ==
    IF HasAuthority(i) THEN [fireFXRPC EXCEPT ![CharOf(i)] = @ + 1] ELSE fireFXRPC

\* Mutant: Shoot never returns at the check of the weapon component.
ShootReturnsEarly_Never(i) == FALSE

\* The check Shoot starts with.
ShootReturnsEarly(i) == WeaponComponent[i] = null

\* Shoot: nothing happens without a weapon component; with one, the
\* projectile is handled and the effects are multicast.  FireFX_Implementation
\* runs HandleProjectileFX of the weapon component once more on this machine.
Shoot(i) ==
    /\ shoots' = [shoots EXCEPT ![i] = @ + 1]
    /\ IF ShootReturnsEarly(i)
       THEN UNCHANGED <<crashed, nullDeref, projectiles, fxRuns, fireFXRPC>>
       ELSE /\ HandleProjectile(MachineOf(i), WeaponComponent[i], 1)
            /\ fireFXRPC' = IF crashed'[MachineOf(i)] THEN fireFXRPC ELSE FireFX(i)

\* Fire: bound to the Started event of the fire input.
Fire(i) ==
    /\ lastCall' = Call("Fire", i)
    /\ Live(i) /\ IsLocallyControlled(i)
    /\ fires[CharOf(i)] < MaxFires
    /\ fires' = [fires EXCEPT ![CharOf(i)] = @ + 1]
    /\ IF HasAuthority(i)
       THEN /\ Shoot(i)
            /\ UNCHANGED serverFireRPC
       ELSE /\ serverFireRPC' = ServerFire(CharOf(i))
            /\ UNCHANGED <<shoots, crashed, nullDeref, projectiles, fxRuns, fireFXRPC>>
    /\ UNCHANGED <<begun, Health, BaseStamina, MaxWalkSpeed, ControlInputVector,
                   LastInputVector, bHasRifle, WeaponComponent, destroyed,
                   AccumulatedTime, despawnFX, net, weaponVars, MappingContexts,
                   wServerFireRPC, impulses, wFires, hits>>
    /\ UNCHANGED <<pickupVars, regenVars, soloVars>>

\* ServerFire_Implementation: the server handles a request of the client.  A
\* request for an actor the server has destroyed is dropped.
ServerFire_Implementation(c) ==
    LET i == <<"server", c>> IN
    /\ serverFireRPC[c] > 0
    /\ begun[i] /\ ~crashed["server"]
    /\ lastCall' = Call("ServerFire", i)
    /\ serverFireRPC' = [serverFireRPC EXCEPT ![c] = @ - 1]
    /\ IF destroyed[i]
       THEN UNCHANGED <<shoots, crashed, nullDeref, projectiles, fxRuns, fireFXRPC>>
       ELSE Shoot(i)
    /\ UNCHANGED <<begun, Health, BaseStamina, MaxWalkSpeed, ControlInputVector,
                   LastInputVector, bHasRifle, WeaponComponent, destroyed,
                   AccumulatedTime, despawnFX, net, weaponVars, MappingContexts,
                   wServerFireRPC, impulses, fires, wFires, hits>>
    /\ UNCHANGED <<pickupVars, regenVars, soloVars>>

\* FireFX_Implementation on the client, for a multicast of the server:
\* HandleProjectileFX is called on WeaponComponent without a check.
FireFX_Implementation(c) ==
    LET i == <<"client", c>>
        w == WeaponComponent[i] IN
    /\ fireFXRPC[c] > 0
    /\ ~crashed["client"]
    /\ lastCall' = Call("FireFX", i)
    /\ fireFXRPC' = [fireFXRPC EXCEPT ![c] = @ - 1]
    /\ IF ~Live(i)
       THEN UNCHANGED <<crashed, nullDeref, fxRuns>>
       ELSE /\ nullDeref' = nullDeref \cup HandleProjectileFXDerefs("client", w)
            /\ \/ /\ HandleProjectileFXDerefs("client", w) # {}
                  /\ crashed' = [crashed EXCEPT !["client"] = TRUE]
                  /\ UNCHANGED fxRuns
               \/ /\ UNCHANGED crashed
                  /\ fxRuns' = RunHandleProjectileFX("client", w, 1)
    /\ UNCHANGED <<begun, Health, BaseStamina, MaxWalkSpeed, ControlInputVector,
                   LastInputVector, bHasRifle, WeaponComponent, destroyed,
                   AccumulatedTime, despawnFX, net, weaponVars, MappingContexts,
                   serverFireRPC, wServerFireRPC, projectiles, impulses, fires,
                   wFires, shoots, hits>>
    /\ UNCHANGED <<pickupVars, regenVars, soloVars>>

\* An unreliable multicast can be lost on the way.
LoseFireFX(c) ==
    /\ fireFXRPC[c] > 0
    /\ lastCall' = Call("LoseFireFX", <<"client", c>>)
    /\ fireFXRPC' = [fireFXRPC EXCEPT ![c] = @ - 1]
    /\ UNCHANGED <<begun, Health, BaseStamina, MaxWalkSpeed, ControlInputVector,
                   LastInputVector, bHasRifle, WeaponComponent, destroyed,
                   AccumulatedTime, crashed, despawnFX, net, weaponVars,
                   MappingContexts, serverFireRPC, wServerFireRPC, projectiles,
                   impulses, fxRuns, fires, wFires, shoots, hits, nullDeref>>
    /\ UNCHANGED <<pickupVars, regenVars, soloVars>>

\* UTP_WeaponComponent::Fire, bound by AttachWeapon to the Triggered event of
\* the fire input of the local player.  The owner of the component is
\* replicated from the server, which has the authority over it.
WeaponFire(m, w) ==
    LET ch == wCharacter[<<m, w>>] IN
    /\ FireBindings[<<m, w>>] > 0
    /\ ~crashed[m] /\ ~wDestroyed[<<m, w>>]
    /\ wFires[<<m, w>>] < MaxWeaponFires
    /\ lastCall' = Call("WeaponFire", <<m, w>>)
    /\ wFires' = [wFires EXCEPT ![<<m, w>>] = @ + 1]
    /\ IF ch = null \/ Controller(<<m, ch>>) = null
       THEN UNCHANGED <<crashed, nullDeref, projectiles, fxRuns, wServerFireRPC>>
       ELSE IF m = "server"
            THEN /\ HandleProjectile(m, w, 0)
                 /\ UNCHANGED wServerFireRPC
            ELSE /\ wServerFireRPC' = [wServerFireRPC EXCEPT ![w] = @ + 1]
                 /\ UNCHANGED <<crashed, nullDeref, projectiles, fxRuns>>
    /\ UNCHANGED <<begun, Health, BaseStamina, MaxWalkSpeed, ControlInputVector,
                   LastInputVector, bHasRifle, WeaponComponent, destroyed,
                   AccumulatedTime, despawnFX, net, weaponVars, MappingContexts,
                   serverFireRPC, fireFXRPC, impulses, fires, shoots, hits>>
    /\ UNCHANGED <<pickupVars, regenVars, soloVars>>

\* UTP_WeaponComponent::ServerFire_Implementation: the server handles a
\* request of the client's weapon component.
WeaponServerFire_Implementation(w) ==
    /\ wServerFireRPC[w] > 0
    /\ ~crashed["server"] /\ ~wDestroyed[<<"server", w>>]
    /\ lastCall' = Call("WeaponServerFire", <<"server", w>>)
    /\ wServerFireRPC' = [wServerFireRPC EXCEPT ![w] = @ - 1]
    /\ HandleProjectile("server", w, 0)
    /\ UNCHANGED <<begun, Health, BaseStamina, MaxWalkSpeed, ControlInputVector,
                   LastInputVector, bHasRifle, WeaponComponent, destroyed,
                   AccumulatedTime, despawnFX, net, weaponVars, MappingContexts,
                   serverFireRPC, fireFXRPC, impulses, fires, wFires, shoots, hits>>
    /\ UNCHANGED <<pickupVars, regenVars, soloVars>>

\* ------------------------------------------------------ ANeuroStrikeProjectile
\* UPrimitiveComponent::IsSimulatingPhysics
IsSimulatingPhysics(OtherComp) == OtherComp = "PhysicsComp"

\* Mutant: the physics of the component hit is not asked for.
OnHitApplies_AnyComponent(OtherActor, OtherComp) ==
    /\ OtherActor # null /\ OtherActor # "this"
    /\ OtherComp # null

\* The condition of OnHit.
OnHitApplies(OtherActor, OtherComp) ==
    /\ OtherActor # null /\ OtherActor # "this"
    /\ OtherComp # null /\ IsSimulatingPhysics(OtherComp)

\* OnHit, bound to OnComponentHit of the collision sphere: the projectile
\* bounces, so a flying projectile can hit again and again; the engine raises
\* no hit event for a destroyed actor.
OnHit(p, OtherActor, OtherComp) ==
    /\ projectiles[p] = "flying"
    /\ ~crashed["server"]
    /\ hits[p] < MaxHits
    /\ lastCall' = Call("OnHit", <<"server", "Projectile">>)
    /\ hits' = [hits EXCEPT ![p] = @ + 1]
    /\ IF OnHitApplies(OtherActor, OtherComp)
       THEN /\ impulses' = [impulses EXCEPT ![p] = @ + 1]
            /\ projectiles' = [projectiles EXCEPT ![p] = "destroyed"]
       ELSE UNCHANGED <<impulses, projectiles>>
    /\ UNCHANGED <<begun, Health, BaseStamina, MaxWalkSpeed, ControlInputVector,
                   LastInputVector, bHasRifle, WeaponComponent, destroyed,
                   AccumulatedTime, crashed, despawnFX, net, weaponVars,
                   MappingContexts, serverFireRPC, wServerFireRPC, fireFXRPC,
                   fxRuns, fires, wFires, shoots, nullDeref>>
    /\ UNCHANGED <<pickupVars, regenVars, soloVars>>

\* InitialLifeSpan: the engine destroys the projectile three seconds after
\* it was spawned.
LifeSpanExpired(p) ==
    /\ projectiles[p] = "flying"
    /\ ~crashed["server"]
    /\ lastCall' = Call("LifeSpanExpired", <<"server", "Projectile">>)
    /\ projectiles' = [projectiles EXCEPT ![p] = "destroyed"]
    /\ UNCHANGED <<begun, Health, BaseStamina, MaxWalkSpeed, ControlInputVector,
                   LastInputVector, bHasRifle, WeaponComponent, destroyed,
                   AccumulatedTime, crashed, despawnFX, net, weaponVars,
                   MappingContexts, serverFireRPC, wServerFireRPC, fireFXRPC,
                   impulses, fxRuns, fires, wFires, shoots, hits, nullDeref>>
    /\ UNCHANGED <<pickupVars, regenVars, soloVars>>

\* --------------------------------------------------------- UTP_PickUpComponent
\* BeginPlay of the pickup component binds the overlap handler.
PickUpBeginPlay(p) ==
    /\ ~pBegun[p]
    /\ lastCall' = Call("PickUpBeginPlay", <<"server", p>>)
    /\ pBegun' = [pBegun EXCEPT ![p] = TRUE]
    /\ overlapBound' = [overlapBound EXCEPT ![p] = TRUE]
    /\ UNCHANGED <<begun, Health, BaseStamina, MaxWalkSpeed, ControlInputVector,
                   LastInputVector, bHasRifle, WeaponComponent, destroyed,
                   AccumulatedTime, crashed, despawnFX, net, weaponVars,
                   MappingContexts, OnPickUp, overlaps, regenVars,
                   fireVars, soloVars, nullDeref>>

\* Mutant: any actor passes, only null is refused.
CastToCharacter_AnyActor(OtherActor) == OtherActor

\* Cast<ANeuroStrikeCharacter>(OtherActor)
CastToCharacter(OtherActor) == IF OtherActor \in Chars THEN OtherActor ELSE null

\* The sphere begins to overlap OtherActor: the engine broadcasts
\* OnComponentBeginOverlap, and OnSphereBeginOverlap runs if it is bound.
OnSphereBeginOverlap(p, OtherActor) ==
    /\ pBegun[p]
    /\ Len(overlaps[p]) < MaxOverlaps
    /\ lastCall' = Call("OnSphereBeginOverlap", <<"server", p>>)
    /\ overlaps' = [overlaps EXCEPT ![p] = Append(@, OtherActor)]
    /\ IF overlapBound[p] /\ CastToCharacter(OtherActor) # null
       THEN /\ OnPickUp' = [OnPickUp EXCEPT ![p] = Append(@, CastToCharacter(OtherActor))]
            /\ overlapBound' = [overlapBound EXCEPT ![p] = FALSE]
       ELSE UNCHANGED <<OnPickUp, overlapBound>>
    /\ UNCHANGED <<begun, Health, BaseStamina, MaxWalkSpeed, ControlInputVector,
                   LastInputVector, bHasRifle, WeaponComponent, destroyed,
                   AccumulatedTime, crashed, despawnFX, net, weaponVars,
                   MappingContexts, pBegun, regenVars,
                   fireVars, soloVars, nullDeref>>

\* ------------------------------------------------- despawn of the character
\* Multicast_OnDespawnEffects (NetMulticast, Reliable): the body runs on the
\* calling machine; called on the server, it is also sent to the client.
\* Destroy(): the actor is destroyed; on the server the destruction is
\* replicated to the client.
DespawnEffectsAndDestroy(i) ==
    /\ despawnFX' = [despawnFX EXCEPT ![i] = @ + 1]
    /\ destroyed' = [destroyed EXCEPT ![i] = TRUE]
    /\ net' = IF HasAuthority(i)
              THEN net \cup {[type |-> "Multicast_OnDespawnEffects", char |-> CharOf(i)],
                             [type |-> "DestroyActor", char |-> CharOf(i)]}
              ELSE net
    /\ UNCHANGED crashed

\* Despawn_Implementation.  WeaponComponent is dereferenced without a check:
\* with a null WeaponComponent the call is undefined behaviour, which either
\* ends the process at once or goes on as if nothing had been called.
Despawn_Implementation(i) ==
    IF WeaponComponent[i] = null
    THEN /\ nullDeref' = nullDeref \cup {"WeaponComponent"}
         /\ \/ /\ crashed' = [crashed EXCEPT ![MachineOf(i)] = TRUE]
               /\ UNCHANGED <<despawnFX, destroyed, net, wDestroyed, MappingContexts>>
            \/ /\ DespawnEffectsAndDestroy(i)
               /\ UNCHANGED <<wDestroyed, MappingContexts>>
    ELSE /\ UNCHANGED nullDeref
         /\ wDestroyed' = [wDestroyed EXCEPT ![<<MachineOf(i), WeaponComponent[i]>>] = TRUE]
         /\ MappingContexts' = WeaponEndPlay(MachineOf(i), WeaponComponent[i])
         /\ DespawnEffectsAndDestroy(i)

\* The health left after HealthCost is subtracted.
HealthAfter(i, HealthCost) == Health[i] - HealthCost

\* Health <= 0.0f: the character dies.
IsDead(h) == h <= 0

DecreaseHealth_Implementation(i, HealthCost) ==
    /\ lastCall' = Call("DecreaseHealth", i)
    /\ Live(i)
    /\ HealthAfter(i, HealthCost) <= MaxHealth + MaxOverheal
    /\ IF IsDead(HealthAfter(i, HealthCost))
       THEN /\ Health' = [Health EXCEPT ![i] = 0]
            /\ Despawn_Implementation(i)
       ELSE /\ Health' = [Health EXCEPT ![i] = HealthAfter(i, HealthCost)]
            /\ UNCHANGED <<destroyed, crashed, despawnFX, net, wDestroyed,
                           MappingContexts, nullDeref>>
    /\ UNCHANGED <<begun, BaseStamina, MaxWalkSpeed, ControlInputVector,
                   LastInputVector, bHasRifle, WeaponComponent, AccumulatedTime,
                   wCharacter, wAttachParent, FireBindings>>
    /\ UNCHANGED <<pickupVars, regenVars, fireVars, soloVars>>

\* ------------------------------------------------------------ replication
\* The client runs the body of a multicast the server sent.
\* Multicast_OnDespawnEffects_Implementation only shows a message, on the
\* instances without authority.
ReceiveDespawnEffects(c) ==
    LET m == [type |-> "Multicast_OnDespawnEffects", char |-> c]
        i == <<"client", c>> IN
    /\ m \in net
    /\ net' = net \ {m}
    /\ lastCall' = Call("Multicast_OnDespawnEffects", i)
    /\ despawnFX' = IF Live(i) THEN [despawnFX EXCEPT ![i] = @ + 1] ELSE despawnFX
    /\ UNCHANGED <<begun, Health, BaseStamina, MaxWalkSpeed, ControlInputVector,
                   LastInputVector, bHasRifle, WeaponComponent, destroyed,
                   AccumulatedTime, crashed, weaponVars, MappingContexts>>
    /\ UNCHANGED <<pickupVars, regenVars, fireVars, soloVars, nullDeref>>

\* The client destroys its copy of an actor the server destroyed.
ReceiveDestroy(c) ==
    LET m == [type |-> "DestroyActor", char |-> c]
        i == <<"client", c>> IN
    /\ m \in net
    /\ net' = net \ {m}
    /\ lastCall' = Call("ReplicateDestroy", i)
    /\ destroyed' = IF crashed["client"] THEN destroyed ELSE [destroyed EXCEPT ![i] = TRUE]
    /\ UNCHANGED <<begun, Health, BaseStamina, MaxWalkSpeed, ControlInputVector,
                   LastInputVector, bHasRifle, WeaponComponent,
                   AccumulatedTime, crashed, despawnFX, weaponVars, MappingContexts>>
    /\ UNCHANGED <<pickupVars, regenVars, fireVars, soloVars, nullDeref>>

\* Health is a replicated property: the client's copy of a character takes
\* the value of the server's.
ReplicateHealth(c) ==
    /\ Live(<<"server", c>>) /\ Live(<<"client", c>>)
    /\ Health[<<"client", c>>] # Health[<<"server", c>>]
    /\ lastCall' = Call("ReplicateHealth", <<"client", c>>)
    /\ Health' = [Health EXCEPT ![<<"client", c>>] = Health[<<"server", c>>]]
    /\ UNCHANGED <<begun, BaseStamina, MaxWalkSpeed, ControlInputVector,
                   LastInputVector, bHasRifle, WeaponComponent, destroyed,
                   AccumulatedTime, crashed, despawnFX, net, weaponVars,
                   MappingContexts>>
    /\ UNCHANGED <<pickupVars, regenVars, fireVars, soloVars, nullDeref>>

Replication(c) == ReceiveDespawnEffects(c) \/ ReceiveDestroy(c) \/ ReplicateHealth(c)

\* ------------------------------------------------------------ initial state
\* The state after construction.  The constructor sets bHasRifle; the other
\* properties of the new object are zero.  WeaponComponent is a public
\* property that no function of the character assigns: it is null unless it
\* was set from outside, to the character's own weapon, on the instances wc.
InitCharacters(walk, wc) ==
    /\ begun = [i \in Inst |-> FALSE]
    /\ Health = [i \in Inst |-> 0]
    /\ BaseStamina = [i \in Inst |-> 0]
    /\ MaxWalkSpeed = [i \in Inst |-> walk]
    /\ ControlInputVector = [i \in Inst |-> <<0, 0>>]
    /\ LastInputVector = [i \in Inst |-> <<0, 0>>]
    /\ bHasRifle = [i \in Inst |-> FALSE]
    /\ WeaponComponent = [i \in Inst |-> IF i \in wc THEN WeaponOf(CharOf(i)) ELSE null]
    /\ destroyed = [i \in Inst |-> FALSE]
    /\ AccumulatedTime = [m \in Machines |-> 0]
    /\ crashed = [m \in Machines |-> FALSE]
    /\ despawnFX = [i \in Inst |-> 0]
    /\ net = {}
    /\ nullDeref = {}
    /\ soloAccum = [i \in Inst |-> 0]
    /\ soloStamina = [i \in Inst |-> 0]
    /\ lastCall = Call("none", <<"server", "A">>)

InitPickups ==
    /\ pBegun = [p \in Pickups |-> FALSE]
    /\ overlapBound = [p \in Pickups |-> FALSE]
    /\ OnPickUp = [p \in Pickups |-> <<>>]
    /\ overlaps = [p \in Pickups |-> <<>>]

\* Nothing was fired: no request is in flight and no projectile exists.
InitFire ==
    /\ serverFireRPC = [c \in Chars |-> 0]
    /\ wServerFireRPC = [w \in Weapons |-> 0]
    /\ fireFXRPC = [c \in Chars |-> 0]
    /\ projectiles = [p \in Projectiles |-> "none"]
    /\ impulses = [p \in Projectiles |-> 0]
    /\ fxRuns = [x \in Machines \X Weapons |-> 0]
    /\ fires = [c \in Chars |-> 0]
    /\ wFires = [x \in Machines \X Weapons |-> 0]
    /\ shoots = [i \in Inst |-> 0]
    /\ hits = [p \in Projectiles |-> 0]

InitWeapons ==
    /\ wCharacter = [x \in Machines \X Weapons |-> null]
    /\ wAttachParent = [x \in Machines \X Weapons |-> null]
    /\ wDestroyed = [x \in Machines \X Weapons |-> FALSE]
    /\ MappingContexts = [m \in Machines |-> {}]
    /\ FireBindings = [x \in Machines \X Weapons |-> 0]

\* ------------------------------------------------- stamina of one character
\* The character B on the machine of its player.
StaminaInst == {<<"client", "B">>}

NoRegenMeasure == measuring = FALSE /\ regenClock = 0 /\ regenGain = 0

InitStamina ==
    /\ \E walk \in InitialWalkSpeeds : InitCharacters(walk, {})
    /\ InitWeapons
    /\ InitPickups
    /\ InitFire
    /\ NoRegenMeasure

NextStamina ==
    \E i \in StaminaInst :
        \/ BeginPlay(i)
        \/ \E Value \in MoveValues : Move(i, Value)
        \/ Sprint(i)
        \/ StopSprinting(i)
        \/ \E dt \in DeltaSeconds : Tick(i, dt)

SpecStamina == InitStamina /\ [][NextStamina]_vars

\* ---------------------------------------------- health of one character
\* The character A on the server and its copy on the client.
HealthInst == {<<"server", "A">>, <<"client", "A">>}

InitHealth ==
    /\ \E wc \in SUBSET HealthInst : InitCharacters(WalkingSpeed, wc)
    /\ InitWeapons
    /\ InitPickups
    /\ InitFire
    /\ NoRegenMeasure

NextHealth ==
    \/ \E i \in HealthInst : BeginPlay(i)
    \/ \E i \in HealthInst, HealthCost \in HealthCosts :
          DecreaseHealth_Implementation(i, HealthCost)
    \/ \E c \in {"A"} : Replication(c)

SpecHealth == InitHealth /\ [][NextHealth]_vars

\* ------------------------------------------ regeneration over one second
\* The character B sprints until its stamina is far enough below the maximum
\* to stay below it for a second; from there no Sprint is triggered, and the
\* stamina regenerated is measured against the tick time.
RegenStartStamina == {MaxStamina - 30, MaxStamina - 40, MaxStamina - 50}

InitRegen ==
    /\ \E walk \in InitialWalkSpeeds : InitCharacters(walk, {})
    /\ InitWeapons
    /\ InitPickups
    /\ InitFire
    /\ NoRegenMeasure

\* The measurement starts at a moment at which the stamina is one of the
\* start values and the regeneration step has just run.
StartMeasure(i) ==
    /\ ~measuring
    /\ Live(i)
    /\ BaseStamina[i] \in RegenStartStamina
    /\ AccumulatedTime[MachineOf(i)] = 0
    /\ measuring' = TRUE
    /\ UNCHANGED <<begun, Health, BaseStamina, MaxWalkSpeed, ControlInputVector,
                   LastInputVector, bHasRifle, WeaponComponent, destroyed,
                   AccumulatedTime, crashed, despawnFX, net, weaponVars,
                   MappingContexts, pickupVars, lastCall, regenClock, regenGain,
                   fireVars, soloVars, nullDeref>>

\* No Sprint is triggered while the regeneration is measured.
SprintBeforeMeasure(i) == ~measuring /\ Sprint(i)

NextRegen ==
    \E i \in StaminaInst :
        \/ BeginPlay(i)
        \/ \E Value \in MoveValues : Move(i, Value)
        \/ SprintBeforeMeasure(i)
        \/ StopSprinting(i)
        \/ \E dt \in DeltaSeconds : Tick(i, dt)
        \/ StartMeasure(i)

SpecRegen == InitRegen /\ [][NextRegen]_vars

\* ------------------------------------------- pickups and weapons on the server
InitPickUp ==
    /\ InitCharacters(WalkingSpeed, {})
    /\ InitWeapons
    /\ InitPickups
    /\ InitFire
    /\ NoRegenMeasure

NextPickUp ==
    \/ \E c \in Chars : BeginPlay(<<"server", c>>)
    \/ \E p \in Pickups : PickUpBeginPlay(p)
    \/ \E p \in Pickups, OtherActor \in OtherActors : OnSphereBeginOverlap(p, OtherActor)
    \/ \E w \in Weapons, TargetCharacter \in Chars \cup {null} :
          AttachWeapon("server", w, TargetCharacter)

SpecPickUp == InitPickUp /\ [][NextPickUp]_vars

\* ------------------------------------------------------------------ firing
\* The character A on the server, where its player sits, and the character B
\* on the server and on the client of its player.  Each weapon is attached to
\* the character whose WeaponComponent can point to it.
FireInst == {<<"server", "A">>, <<"server", "B">>, <<"client", "B">>}

InitFireSpec ==
    /\ \E wc \in SUBSET FireInst : InitCharacters(WalkingSpeed, wc)
    /\ InitWeapons
    /\ InitPickups
    /\ InitFire
    /\ NoRegenMeasure

NextFire ==
    \/ \E i \in FireInst : BeginPlay(i)
    \/ \E i \in FireInst : AttachWeapon(MachineOf(i), WeaponOf(CharOf(i)), CharOf(i))
    \/ \E i \in FireInst : Fire(i)
    \/ \E c \in Chars : ServerFire_Implementation(c)
    \/ \E c \in Chars : FireFX_Implementation(c)
    \/ \E c \in Chars : LoseFireFX(c)

SpecFire == InitFireSpec /\ [][NextFire]_vars

\* ------------------------------------------- firing by the weapon component
\* The fire input also reaches the Fire of an attached weapon component.
NextWeaponFire ==
    \/ NextFire
    \/ \E i \in FireInst : WeaponFire(MachineOf(i), WeaponOf(CharOf(i)))
    \/ \E w \in Weapons : WeaponServerFire_Implementation(w)

SpecWeaponFire == InitFireSpec /\ [][NextWeaponFire]_vars

\* --------------------------------------------------------------- projectiles
\* The character A on the server fires its attached weapon; the projectiles
\* fly, hit and expire.
ProjectileInst == {<<"server", "A">>}

InitProjectile ==
    /\ InitCharacters(WalkingSpeed, ProjectileInst)
    /\ InitWeapons
    /\ InitPickups
    /\ InitFire
    /\ NoRegenMeasure

NextProjectile ==
    \/ \E i \in ProjectileInst : BeginPlay(i)
    \/ \E i \in ProjectileInst : AttachWeapon(MachineOf(i), WeaponOf(CharOf(i)), CharOf(i))
    \/ \E i \in ProjectileInst : Fire(i)
    \/ \E p \in Projectiles, OtherActor \in HitActors, OtherComp \in HitComps :
          OnHit(p, OtherActor, OtherComp)
    \/ \E p \in Projectiles : LifeSpanExpired(p)

SpecProjectile == InitProjectile /\ [][NextProjectile]_vars

\* ------------------------------------------- two characters on one machine
\* The server ticks its own player's character A and the character B of the
\* client's player.
TwoCharactersInst == {<<"server", "A">>, <<"server", "B">>}

InitTwoCharacters ==
    /\ InitCharacters(WalkingSpeed, {})
    /\ InitWeapons
    /\ InitPickups
    /\ InitFire
    /\ NoRegenMeasure

\* A Sprint trigger of a character that has sprinted only a little.
SprintNearMax(i) == BaseStamina[i] > MaxStamina - MaxSprintDebt /\ Sprint(i)

\* The player of A keeps the move input pressed.
NextTwoCharacters ==
    \E i \in TwoCharactersInst :
        \/ BeginPlay(i)
        \/ Move(i, <<0, 1000>>)
        \/ SprintNearMax(i)
        \/ \E dt \in DeltaSeconds : Tick(i, dt)

SpecTwoCharacters == InitTwoCharacters /\ [][NextTwoCharacters]_vars

\* ------------------------------------- the sprint on the client and the server
\* The character B on the client of its player and on the server.
SprintSyncInst == {<<"server", "B">>, <<"client", "B">>}

InitSprintSync ==
    /\ InitCharacters(WalkingSpeed, {})
    /\ InitWeapons
    /\ InitPickups
    /\ InitFire
    /\ NoRegenMeasure

NextSprintSync ==
    \E i \in SprintSyncInst :
        \/ BeginPlay(i)
        \/ \E Value \in MoveValues : Move(i, Value)
        \/ SprintNearMax(i)
        \/ StopSprinting(i)
        \/ \E dt \in DeltaSeconds : Tick(i, dt)

SpecSprintSync == InitSprintSync /\ [][NextSprintSync]_vars

\* ================================================================== claims

\* C1: whenever DecreaseHealth on a live character leaves Health <= 0, Health
\* is set to exactly 0 and in the same call the character is despawned: its
\* weapon component (if it has one) is destroyed, the despawn effects are
\* multicast and the actor is destroyed; when the result is > 0 the character
\* is not destroyed.
C1_LethalDamageDespawns ==
    [][\A i \in Inst, HealthCost \in HealthCosts :
          DecreaseHealth_Implementation(i, HealthCost)
          => IF Health[i] - HealthCost <= 0
             THEN /\ Health'[i] = 0
                  /\ destroyed'[i]
                  /\ despawnFX'[i] = despawnFX[i] + 1
                  /\ HasAuthority(i) =>
                        [type |-> "Multicast_OnDespawnEffects", char |-> CharOf(i)] \in net'
                  /\ WeaponComponent[i] # null =>
                        wDestroyed'[<<MachineOf(i), WeaponComponent[i]>>]
             ELSE ~destroyed'[i]]_vars

\* C2: in every state reachable after BeginPlay by any sequence of
\* DecreaseHealth calls, 0 <= Health <= MaxHealth.
C2_HealthWithinBounds ==
    \A i \in Inst : begun[i] => 0 <= Health[i] /\ Health[i] <= MaxHealth

\* C3: in every state reachable after BeginPlay by any interleaving of Tick,
\* Sprint and StopSprinting, BaseStamina <= MaxStamina.
C3_StaminaNeverExceedsMax ==
    \A i \in Inst : begun[i] => BaseStamina[i] <= MaxStamina

\* C4: in every state reachable after BeginPlay by any interleaving of Sprint,
\* StopSprinting and Tick, BaseStamina >= 0.
C4_StaminaNeverNegative ==
    \A i \in Inst : begun[i] => BaseStamina[i] >= 0

\* The stamina was sprinted down to nothing.
C4_Witness ==
    \E i \in Inst :
        /\ lastCall = Call("Sprint", i)
        /\ BaseStamina[i] = 0
        /\ MaxWalkSpeed[i] = SprintingSpeed

\* C5 as stated: each Sprint trigger that finds BaseStamina >= 0.1 and a
\* non-zero last movement input sets MaxWalkSpeed to SprintingSpeed and lowers
\* BaseStamina by exactly the sprint cost, changing neither Health nor
\* bHasRifle.
C5_SprintDrainsStaminaNonZeroInput ==
    [][\A i \in Inst :
          (Live(i) /\ lastCall' = Call("Sprint", i)
                   /\ BaseStamina[i] >= SprintStaminaCost
                   /\ LastInputVector[i] # <<0, 0>>)
          => /\ MaxWalkSpeed'[i] = SprintingSpeed
             /\ BaseStamina'[i] = BaseStamina[i] - SprintStaminaCost
             /\ Health' = Health
             /\ bHasRifle' = bHasRifle]_vars

\* C5 as amended: each Sprint trigger that finds BaseStamina >= 0.1 and a last
\* movement input with a component over the tolerance 0.001 in magnitude sets
\* MaxWalkSpeed to SprintingSpeed and lowers BaseStamina by exactly the sprint
\* cost, changing neither Health nor bHasRifle.
C5_SprintDrainsStamina ==
    [][\A i \in Inst :
          (Live(i) /\ lastCall' = Call("Sprint", i)
                   /\ BaseStamina[i] >= SprintStaminaCost
                   /\ \E k \in 1..2 : LastInputVector[i][k] > Tolerance
                                       \/ -LastInputVector[i][k] > Tolerance)
          => /\ MaxWalkSpeed'[i] = SprintingSpeed
             /\ BaseStamina'[i] = BaseStamina[i] - SprintStaminaCost
             /\ Health' = Health
             /\ bHasRifle' = bHasRifle]_vars

\* A Sprint trigger has paid for the sprint.
C5_Witness ==
    \E i \in Inst :
        /\ lastCall = Call("Sprint", i)
        /\ LastInputVector[i] = <<0, 1000>>
        /\ MaxWalkSpeed[i] = SprintingSpeed
        /\ BaseStamina[i] = MaxStamina - SprintStaminaCost

\* C6: a Sprint trigger that finds BaseStamina < 0.1 or no movement input
\* sets MaxWalkSpeed to WalkingSpeed and leaves BaseStamina unchanged; no
\* Sprint trigger that did not pay the cost leaves the character at
\* SprintingSpeed.
C6_SprintWithoutStaminaStops ==
    [][\A i \in Inst :
          (Live(i) /\ lastCall' = Call("Sprint", i))
          => /\ (BaseStamina[i] < SprintStaminaCost \/ LastInputVector[i] = <<0, 0>>)
                  => MaxWalkSpeed'[i] = WalkingSpeed /\ BaseStamina' = BaseStamina
             /\ BaseStamina'[i] >= BaseStamina[i] => MaxWalkSpeed'[i] # SprintingSpeed]_vars

\* A Sprint trigger found the stamina used up while the player was moving.
C6_Witness ==
    \E i \in Inst :
        /\ lastCall = Call("Sprint", i)
        /\ LastInputVector[i] = <<0, 1000>>
        /\ BaseStamina[i] < SprintStaminaCost
        /\ MaxWalkSpeed[i] = WalkingSpeed

\* C7: over a tick sequence during which BaseStamina stays below MaxStamina
\* and no Sprint occurs, the stamina gained in one second of accumulated tick
\* time is StaminaRegenRate.
C7_RegenPerSecond ==
    (measuring /\ regenClock = OneSecond) => regenGain = StaminaRegenRate

\* C8: a health decrease on an instance without authority changes neither
\* Health nor the life of the character there and is forwarded to the server;
\* Health changes and characters are despawned by the game code on the
\* authoritative instance only.
C8_OnlyServerModifiesHealth ==
    [][\A i \in Inst, HealthCost \in HealthCosts :
          (~HasAuthority(i) /\ DecreaseHealth_Implementation(i, HealthCost))
          => /\ Health'[i] = Health[i]
             /\ destroyed'[i] = destroyed[i]
             /\ crashed' = crashed
             /\ \E m \in net' \ net : m.type = "ServerDecreaseHealth"]_vars

\* C9: over any sequence of overlap events on a pickup component after
\* BeginPlay, OnPickUp is broadcast exactly once, for the first overlapping
\* actor that is a character, after which the handler is unbound; overlaps by
\* other actors never broadcast and do not unbind the handler.
C9_PickedUpAtMostOnce ==
    \A p \in Pickups :
        LET characters == SelectSeq(overlaps[p], LAMBDA a : a \in Chars) IN
        /\ OnPickUp[p] = IF characters = <<>> THEN <<>> ELSE <<Head(characters)>>
        /\ overlapBound[p] <=> (pBegun[p] /\ characters = <<>>)

\* A projectile, then a character, then another character overlapped.
C9_Witness ==
    \E p \in Pickups :
        /\ overlaps[p] = <<"Projectile", "B", "A">>
        /\ OnPickUp[p] = <<"B">>
        /\ ~overlapBound[p]

\* C10: AttachWeapon with a null character or a character that already has a
\* rifle leaves the character's state (bHasRifle, attached weapon, input
\* mappings and bindings) and the weapon component's state (its attachment
\* and its Character) unchanged.
C10_AttachWeaponAborted ==
    [][\A m \in Machines, w \in Weapons, TargetCharacter \in Chars \cup {null} :
          (AttachWeapon(m, w, TargetCharacter)
             /\ (TargetCharacter = null \/ bHasRifle[<<m, TargetCharacter>>]))
          => UNCHANGED <<bHasRifle, WeaponComponent, MappingContexts, FireBindings,
                         wAttachParent, wCharacter>>]_vars

\* C11: a Fire on an instance with the authority role runs Shoot there; a Fire
\* on any other instance runs no Shoot and spawns no projectile there and
\* sends one ServerFire request, whose handler runs Shoot on the server; so
\* each fire input leads to exactly one Shoot, and it runs on the authority.
C11_FireRunsShootOnAuthority ==
    [][\A i \in Inst :
          /\ Fire(i) =>
                IF HasAuthority(i)
                THEN /\ shoots' = [shoots EXCEPT ![i] = @ + 1]
                     /\ serverFireRPC' = serverFireRPC
                ELSE /\ shoots' = shoots
                     /\ projectiles' = projectiles
                     /\ serverFireRPC' = [serverFireRPC EXCEPT ![CharOf(i)] = @ + 1]
          /\ (HasAuthority(i) /\ ServerFire_Implementation(CharOf(i)))
                => shoots' = [shoots EXCEPT ![i] = @ + 1]
          /\ ~HasAuthority(i) => shoots'[i] = 0
          /\ HasAuthority(i)
                => shoots'[i] + serverFireRPC'[CharOf(i)] = fires'[CharOf(i)]]_vars

\* The server has run Shoot for its own player's input and for both inputs of
\* the client's player.
C11_Witness ==
    /\ lastCall = Call("ServerFire", <<"server", "B">>)
    /\ fires["B"] = 2 /\ shoots[<<"server", "B">>] = 2 /\ serverFireRPC["B"] = 0
    /\ fires["A"] = 1 /\ shoots[<<"server", "A">>] = 1

\* C12: a Shoot on a character whose WeaponComponent is null returns without
\* spawning a projectile, without multicasting FireFX and without running any
\* fire effect, and changes no state of the character, of the weapons or of
\* the process.
C12_ShootWithoutWeaponDoesNothing ==
    [][\A i \in Inst :
          (WeaponComponent[i] = null /\ shoots'[i] = shoots[i] + 1)
          => UNCHANGED <<projectiles, impulses, fireFXRPC, fxRuns, crashed,
                         nullDeref, begun, Health, BaseStamina, MaxWalkSpeed,
                         bHasRifle, WeaponComponent, destroyed, despawnFX, net,
                         weaponVars, MappingContexts>>]_vars

\* The server has run Shoot, for a request of the client, on a character
\* without a weapon component.
C12_Witness ==
    /\ lastCall = Call("ServerFire", <<"server", "B">>)
    /\ WeaponComponent[<<"server", "B">>] = null
    /\ shoots[<<"server", "B">>] = 1
    /\ fxRuns = [x \in Machines \X Weapons |-> 0]

\* C13: no reachable sequence of operations dereferences a null
\* WeaponComponent; in particular a lethal DecreaseHealth (Despawn) and a
\* FireFX multicast on a character that holds no weapon complete without
\* touching a null weapon component.
C13_WeaponComponentNullGuarded == "WeaponComponent" \notin nullDeref

\* C14: in every reachable execution of HandleProjectile and of
\* HandleProjectileFX, whether entered from the Fire of the weapon component,
\* from its ServerFire handler or from Shoot and FireFX of the character, the
\* Character of the weapon component is not null, and in HandleProjectile its
\* controller is a player controller that is not null.
C14_HandleProjectileCharacterValid ==
    "Character" \notin nullDeref /\ "PlayerController" \notin nullDeref

\* C15: a StopSprinting, called directly or by the Completed event of the
\* sprint input, leaves MaxWalkSpeed at WalkingSpeed and does not change
\* BaseStamina; applied to a character that already walks it changes nothing
\* (twice is the same as once); and a MaxWalkSpeed of WalkingSpeed is left
\* only by a Sprint trigger that pays the stamina cost.
C15_StopSprintingRestoresWalkingSpeed ==
    [][\A i \in Inst :
          /\ lastCall' = Call("StopSprinting", i)
                => /\ MaxWalkSpeed'[i] = WalkingSpeed
                   /\ BaseStamina' = BaseStamina
                   /\ MaxWalkSpeed[i] = WalkingSpeed
                         => UNCHANGED <<MaxWalkSpeed, Health, bHasRifle,
                                        ControlInputVector, LastInputVector,
                                        AccumulatedTime, begun, destroyed>>
          /\ (MaxWalkSpeed[i] = WalkingSpeed /\ MaxWalkSpeed'[i] # WalkingSpeed)
                => /\ lastCall' = Call("Sprint", i)
                   /\ MaxWalkSpeed'[i] = SprintingSpeed
                   /\ BaseStamina'[i] = BaseStamina[i] - SprintStaminaCost]_vars

\* A character that had paid for a sprint was stopped.
C15_Witness ==
    \E i \in Inst :
        /\ lastCall = Call("StopSprinting", i)
        /\ MaxWalkSpeed[i] = WalkingSpeed
        /\ BaseStamina[i] = MaxStamina - SprintStaminaCost
        /\ LastInputVector[i] = <<0, 1000>>

\* C16: OnHit applies the impulse and destroys the projectile exactly when
\* OtherActor is not null and not the projectile itself and OtherComp is not
\* null and simulates physics; otherwise it does neither; so a projectile
\* applies at most one impulse in its lifetime; and OnHit never changes the
\* Health or the stamina of any character.
C16_OnHitImpulseAndDestroy ==
    [][\A p \in Projectiles, OtherActor \in HitActors, OtherComp \in HitComps :
          OnHit(p, OtherActor, OtherComp)
          => /\ IF /\ OtherActor # null /\ OtherActor # "this"
                   /\ OtherComp = "PhysicsComp"
                THEN /\ impulses'[p] = impulses[p] + 1
                     /\ projectiles'[p] = "destroyed"
                ELSE /\ impulses'[p] = impulses[p]
                     /\ projectiles'[p] = "flying"
             /\ impulses'[p] <= 1
             /\ UNCHANGED <<Health, BaseStamina>>]_vars

\* A projectile bounced off twice and then pushed what it hit.
C16_Witness ==
    \E p \in Projectiles :
        /\ lastCall.op = "OnHit"
        /\ hits[p] = 3 /\ impulses[p] = 1 /\ projectiles[p] = "destroyed"

\* C17: the stamina regeneration of a character depends on its own ticks
\* only: with two live characters ticked in any interleaving, the stamina of
\* each is incremented at the times at which it would be incremented if the
\* other did not exist, by an accumulator that only the character's own Tick
\* advances and resets.
C17_RegenDependsOnOwnTicksOnly ==
    \A i \in Inst : begun[i] => BaseStamina[i] = soloStamina[i]

\* C18: for one Shoot that the server runs on a character with a weapon
\* component attached to a character, HandleProjectileFX runs exactly once on
\* the server; and
\* on the client it runs at most once for each Shoot of the server, when the
\* FireFX multicast is received.
C18_FireEffectsOncePerShoot ==
    [][\A c \in Chars :
          LET i == <<"server", c>> IN
          /\ (/\ shoots'[i] = shoots[i] + 1
              /\ WeaponComponent[i] # null
              /\ wCharacter[<<"server", WeaponOf(c)>>] # null)
                => fxRuns'[<<"server", WeaponOf(c)>>] = fxRuns[<<"server", WeaponOf(c)>>] + 1
          /\ fxRuns'[<<"client", WeaponOf(c)>>] <= shoots'[i]]_vars

\* C19: when a Sprint or a StopSprinting changes MaxWalkSpeed or BaseStamina
\* on the instance of the owning client, the server's instance of the
\* character ends with the same MaxWalkSpeed and BaseStamina: the call leaves
\* the two instances equal, or it sends the server something that can make
\* them equal.
C19_ServerAgreesOnSprintState ==
    [][\A c \in Chars :
          LET cl == <<"client", c>>
              sv == <<"server", c>> IN
          (/\ begun[sv]
           /\ lastCall' \in {Call("Sprint", cl), Call("StopSprinting", cl)}
           /\ \/ MaxWalkSpeed'[cl] # MaxWalkSpeed[cl]
              \/ BaseStamina'[cl] # BaseStamina[cl])
          => \/ /\ MaxWalkSpeed'[sv] = MaxWalkSpeed'[cl]
                /\ BaseStamina'[sv] = BaseStamina'[cl]
             \/ net' # net
             \/ serverFireRPC' # serverFireRPC
             \/ wServerFireRPC' # wServerFireRPC]_vars

====
